---- MODULE Spec2Model ----
(***************************************************************************)
(* Daily Scholar front end: the browser-persisted store (localStorage),    *)
(* the search view (HomeContent), the library view (LibraryPage), the      *)
(* digest view, and the server-push analysis channels (EventSource) they   *)
(* open.  One browser tab; a route change unmounts the current view and    *)
(* mounts a fresh instance of the next one, while channels and requests    *)
(* opened by the old instance keep running with the values they captured.  *)
(***************************************************************************)
EXTENDS Integers, Sequences, FiniteSets, TLC

\* ------------------------------------------------------------------ bounds
MaxClock  == 1   \* Date.now() takes the values 0..MaxClock
MaxChans  == 2   \* analysis channels opened in one run
MaxReqs   == 2   \* fetch requests issued in one run
MaxMounts == 2   \* route changes in one run
MaxAlerts == 1   \* alerts after which the empty interest analysis is not clicked

\* --------------------------------------------------------------- constants
HistoryLimit == 10  \* history.slice(0, 10)
RecentLimit  == 5   \* JSON.parse(saved).slice(0, 5)

\* ------------------------------------------------------------------ values
ArxivId(n) == <<"arxiv", n>>
LocalId(t) == <<"local", t>>
NoId       == <<"none", 0>>
SearchIds  == {ArxivId(1), ArxivId(2)}
\* A string value is the sequence of its characters; NoUrl is JSON null.
NoUrl      == <<"null">>
Urls       == {<<"u", "1">>}
Msgs       == {"m1"}
Titles     == {"t1", "t2"}
Starting   == "Starting analysis..."
Letters    == <<"a", "b", "c", "d", "e", "f", "g", "h", "i", "j", "k">>
Query(n)   == <<Letters[n]>>
\* The queries a user may submit, and the one submitted in runs of all views.
Queries      == {Query(n) : n \in 1..(HistoryLimit + 1)}
TypedQueries == {Query(1)}
\* What the query field may hold when the form is submitted: a query, a query
\* with whitespace around it, nothing, or whitespace only.
Inputs == Queries \cup {<<" ">> \o Query(1) \o <<" ">>, <<>>, <<" ">>}

Paper(i, t, l) == [id |-> i, title |-> t, is_local |-> l]

\* What /api/search may answer: lists of papers without the is_local flag; the
\* metadata the backend returns for one id may differ between two searches.
SearchResults ==
    { <<Paper(ArxivId(1), "t1", FALSE), Paper(ArxivId(2), "t1", FALSE)>>,
      <<Paper(ArxivId(2), "t1", FALSE)>>,
      <<Paper(ArxivId(2), "t2", FALSE)>> }

\* ------------------------------------------------------- JS object helpers
\* A Record<string, Paper> is a sequence of papers with distinct ids, in key
\* insertion order; a Record<string, string> is a function on its keys.
EmptyMap == [k \in {} |-> NoUrl]
Keys(m) == {m[i].id : i \in DOMAIN m}
\* A save that appended the record without looking for its key.
SetPaperDup(m, p) == Append(m, p)
\* obj[paper.id] = paper: an existing key keeps its place, a new key goes last.
SetPaper(m, p) ==
    IF p.id \in Keys(m)
    THEN [i \in DOMAIN m |-> IF m[i].id = p.id THEN p ELSE m[i]]
    ELSE Append(m, p)
\* delete obj[id]
DeleteKey(m, id) == SelectSeq(m, LAMBDA r : r.id # id)
Reverse(s) == [i \in 1..Len(s) |-> s[Len(s) + 1 - i]]
PutPoster(m, k, v) == [x \in (DOMAIN m) \cup {k} |-> IF x = k THEN v ELSE m[x]]
\* A removal that left the poster of the removed paper in the cache.
KeepPoster(m, k) == m
\* delete newPosters[paperId]
DropPoster(m, k) == [x \in (DOMAIN m) \ {k} |-> m[x]]

\* ------------------------------------------------------------- JS strings
Whitespace == {" "}
\* typeof v === 'string'
IsString(v) == v # NoUrl
\* A value in a condition: null and the empty string are falsy.
Truthy(v) == v # NoUrl /\ v # <<>>
RECURSIVE TrimStart(_)
TrimStart(s) ==
    IF s # <<>> /\ Head(s) \in Whitespace THEN TrimStart(Tail(s)) ELSE s
RECURSIVE TrimEnd(_)
TrimEnd(s) ==
    IF s # <<>> /\ s[Len(s)] \in Whitespace
    THEN TrimEnd(SubSeq(s, 1, Len(s) - 1))
    ELSE s
\* A comparison of the value as stored, whitespace included.
NoTrim(s) == s
\* v.trim()
Trim(s) == TrimEnd(TrimStart(s))
\* s.startsWith(prefix)
StartsWith(s, prefix) ==
    Len(prefix) <= Len(s) /\ SubSeq(s, 1, Len(prefix)) = prefix
Lt      == <<"<">>
Doctype == <<"<", "!", "D", "O", "C", "T", "Y", "P", "E">>
\* The migration of the poster cache: entries holding HTML of an earlier
\* version (or no string at all) are dropped, the others kept as they are.
CleanCache(parsed) ==
    LET keep == {k \in DOMAIN parsed :
                    /\ IsString(parsed[k])
                    /\ ~StartsWith(Trim(parsed[k]), Lt)
                    /\ ~StartsWith(Trim(parsed[k]), Doctype)}
    IN [k \in keep |-> parsed[k]]
\* The persisted cache after the load effect: written back only when the
\* migration dropped an entry.
LoadCache(ls) ==
    IF ls.has /\ CleanCache(ls.val) # ls.val
    THEN [has |-> TRUE, val |-> CleanCache(ls.val)]
    ELSE ls
\* A view that took no entry of its cache for a poster.
NeverCached(m, k) == FALSE
\* savedPosters[id] in a condition
Cached(m, k) == k \in DOMAIN m /\ Truthy(m[k])
RemoveAt(s, i) == [j \in 1..(Len(s) - 1) |-> IF j < i THEN s[j] ELSE s[j + 1]]

VARIABLES
    lsPapers,   \* localStorage["daily_scholar_saved_papers"]: [has, val]
    lsPosters,  \* localStorage["daily_scholar_posters"]: [has, val]
    lsProfile,  \* localStorage["daily_scholar_user_profile"]: [has, val]
    route,      \* the mounted view: "home", "library" or "digest"
    home,       \* state of the search view (HomeContent)
    lib,        \* state of the library view (LibraryPage)
    digestMeta, \* state of the digest view: has the metadata arrived
    chans,      \* the open EventSource objects
    reqs,       \* fetch requests in flight
    used,       \* [mounts, chans, reqs]: what the run has used of its bounds
    now,        \* Date.now()
    alerts,     \* number of alert() calls so far
    lsHistory,  \* localStorage["daily_scholar_search_history"]: [has, val]
    recent      \* recentSearches of the Sidebar, which every route shows

vars == <<lsPapers, lsPosters, lsProfile, route, home, lib, digestMeta, chans, reqs, used,
          now, alerts, lsHistory, recent>>

\* The profile object handleAnalyzeInterests stores.
Profile(q, d, h) == [suggested_queries |-> q, research_directions |-> d, paper_hash |-> h]
NoProfile == Profile(<<>>, <<>>, <<>>)

\* localStorage.getItem(key) ? JSON.parse(...) : {}
ParsedPapers == IF lsPapers.has THEN lsPapers.val ELSE <<>>

HomeInit ==
    [papers |-> <<>>, loading |-> FALSE, analyzingId |-> NoId,
     analyzingStatus |-> "", posterUrl |-> NoUrl, savedPosters |-> EmptyMap,
     savedIds |-> {}]
LibInit ==
    [savedPapers |-> <<>>, savedPosters |-> EmptyMap, posterUrl |-> NoUrl,
     uploading |-> FALSE, analyzingId |-> NoId, analyzingStatus |-> "",
     analyzingInterests |-> FALSE, suggestedQueries |-> <<>>,
     researchDirections |-> <<>>, showSuggestions |-> FALSE]

\* fetch(...): a request in flight; hash is the currentHash its caller holds.
Request(k, h) == [kind |-> k, live |-> TRUE, hash |-> h]

\* The tab opens on any route, with an empty localStorage; the view's mount
\* effects have run (the digest view's request is in flight).
Init ==
    /\ lsPapers = [has |-> FALSE, val |-> <<>>]
    /\ lsPosters = [has |-> FALSE, val |-> EmptyMap]
    /\ lsProfile = [has |-> FALSE, val |-> NoProfile]
    /\ route \in {"home", "library", "digest"}
    /\ home = HomeInit
    /\ lib = LibInit
    /\ digestMeta = FALSE
    /\ chans = <<>>
    /\ reqs = IF route = "digest" THEN <<Request("digest", <<>>)>> ELSE <<>>
    /\ used = [mounts |-> 0, chans |-> 0, reqs |-> IF route = "digest" THEN 1 ELSE 0]
    /\ now = 0
    /\ alerts = 0
    /\ lsHistory = [has |-> FALSE, val |-> <<>>]
    /\ recent = <<>>

\* A channel or request carries whether the view instance that opened it is
\* still mounted: only then do the setState calls of its handlers take effect.
Live(x) == x.live
\* An unmount that cancelled what the view had opened.
Cancelled(s) == <<>>
Unmounted(s) == [i \in DOMAIN s |-> [s[i] EXCEPT !.live = FALSE]]

Fetch(k) == Append(reqs, Request(k, <<>>))

\* ---------------------------------------------------------------- routing
\* HomeContent's effects on mount: loadSaved, the search of the q parameter,
\* and the poster-cache load.
HomeMounted(q) ==
    [HomeInit EXCEPT
        !.savedIds = IF lsPapers.has THEN Keys(lsPapers.val) ELSE {},
        !.savedPosters = IF lsPosters.has THEN CleanCache(lsPosters.val) ELSE EmptyMap,
        !.loading = q]

\* LibraryPage's effect on mount.
LibMounted ==
    [LibInit EXCEPT
        !.savedPapers = IF lsPapers.has THEN Reverse(lsPapers.val) ELSE <<>>,
        !.savedPosters = IF lsPosters.has THEN lsPosters.val ELSE EmptyMap,
        !.suggestedQueries = IF lsProfile.has THEN lsProfile.val.suggested_queries ELSE <<>>,
        !.researchDirections = IF lsProfile.has THEN lsProfile.val.research_directions ELSE <<>>]

Navigate(to, q) ==
    /\ to # route
    /\ q => to = "home"
    /\ used.mounts < MaxMounts
    /\ (q \/ to = "digest") => used.reqs < MaxReqs
    /\ used' = [used EXCEPT !.mounts = @ + 1,
                            !.reqs = IF q \/ to = "digest" THEN @ + 1 ELSE @]
    /\ route' = to
    /\ home' = IF to = "home" THEN HomeMounted(q) ELSE HomeInit
    /\ lib' = IF to = "library" THEN LibMounted ELSE LibInit
    /\ digestMeta' = FALSE
    /\ chans' = Unmounted(chans)
    /\ reqs' = IF q THEN Append(Unmounted(reqs), Request("search", <<>>))
               ELSE IF to = "digest"
                    THEN Append(Unmounted(reqs), Request("digest", <<>>))
                    ELSE Unmounted(reqs)
    /\ lsPosters' = IF to = "home" THEN LoadCache(lsPosters) ELSE lsPosters
    /\ UNCHANGED <<lsHistory, recent, alerts, lsProfile, lsPapers, now>>

Tick ==
    /\ now < MaxClock
    /\ now' = now + 1
    /\ UNCHANGED <<lsHistory, recent, alerts, lsProfile, used, lsPapers, lsPosters, route, home, lib, digestMeta,
                   chans, reqs>>

\* ------------------------------------------------------------ search view
\* history.slice(0, n)
Take(s, n) == SubSeq(s, 1, IF Len(s) < n THEN Len(s) ELSE n)
\* localStorage.getItem("daily_scholar_search_history") ? JSON.parse(...) : []
ParsedHistory == IF lsHistory.has THEN lsHistory.val ELSE <<>>
\* A history that kept the earlier entry of a query submitted again.
SaveSearchHistoryDup(q) == Take(<<q>> \o ParsedHistory, HistoryLimit)
\* saveSearchHistory: the history written for the query q.
SaveSearchHistory(q) ==
    Take(<<q>> \o SelectSeq(ParsedHistory, LAMBDA h : h # q), HistoryLimit)
\* A Sidebar that showed the whole history.
RecentAll(hist) == hist
\* The Sidebar's listener of search_history_updated, and its mount effect.
RecentSearches(hist) == Take(hist, RecentLimit)

\* A form that submitted the query field as it is.
Untrimmed(typed) == typed
\* const q = query.trim()
Submitted(typed) == Trim(typed)

\* handleSearch with the query field holding typed: nothing for a blank
\* query; otherwise saveSearchHistory, whose signal the Sidebar handles
\* before it returns, then doSearch, which returns at once for a blank query
\* and otherwise runs up to its await: one request to /api/search.
HandleSearch(typed) ==
    /\ route = "home"
    /\ LET q == Submitted(typed)
       IN IF q = <<>>
          THEN UNCHANGED <<used, lsHistory, recent, home, reqs>>
          ELSE /\ lsHistory' = [has |-> TRUE, val |-> SaveSearchHistory(q)]
               /\ recent' = RecentSearches(lsHistory'.val)
               /\ IF Trim(q) = <<>>
                  THEN UNCHANGED <<used, home, reqs>>
                  ELSE /\ used.reqs < MaxReqs
                       /\ used' = [used EXCEPT !.reqs = @ + 1]
                       /\ home' = [home EXCEPT !.loading = TRUE]
                       /\ reqs' = Fetch("search")
    /\ UNCHANGED <<alerts, lsProfile, lsPapers, lsPosters, route, lib, digestMeta, chans, now>>

\* A catch that cleared the displayed papers.
SearchDoneClear(h, ok, data) ==
    [h EXCEPT !.papers = IF ok THEN data ELSE <<>>, !.loading = FALSE]
\* doSearch after its await, on the mounted view: setPapers(data) on
\* success, setLoading(false) in the finally.
SearchDone(h, ok, data) ==
    [h EXCEPT !.papers = IF ok THEN data ELSE @, !.loading = FALSE]

\* doSearch after its await: setPapers(data), or the catch with its alert;
\* setLoading(false) in either case.
SearchResponse(i, ok, data) ==
    /\ i \in DOMAIN reqs
    /\ reqs[i].kind = "search"
    /\ home' = IF Live(reqs[i]) THEN SearchDone(home, ok, data) ELSE home
    /\ reqs' = RemoveAt(reqs, i)
    /\ alerts' = IF ok THEN alerts ELSE alerts + 1
    /\ UNCHANGED <<lsHistory, recent, lsProfile, used, lsPapers, lsPosters, route, lib, digestMeta, chans, now>>

\* A listener that left savedIds as it was.
LoadSavedNot(h, ls) == h
\* loadSaved, the listener of library_updated.
LoadSaved(h, ls) == IF ls.has THEN [h EXCEPT !.savedIds = Keys(ls.val)] ELSE h

\* window.dispatchEvent(new Event("library_updated")) runs the listener of the
\* mounted search view, if there is one, before it returns.
Dispatched(h, ls) == IF route = "home" THEN LoadSaved(h, ls) ELSE h

\* savePaperToLibrary of the search view: the value written to the store.
SavePaperToLibrary(paper) == [has |-> TRUE, val |-> SetPaper(ParsedPapers, paper)]

\* toggleSave in the mounted search view with state h on the persisted map
\* ls: the view state and the persisted map it leaves, its signal handled.
Toggled(h, ls, paper) ==
    IF paper.id \in h.savedIds
    THEN IF ls.has
         THEN LET meta == [has |-> TRUE, val |-> DeleteKey(ls.val, paper.id)]
              IN [home |-> LoadSaved(h, meta), ls |-> meta]
         ELSE [home |-> h, ls |-> ls]
    ELSE LET meta == [has |-> TRUE,
                      val |-> SetPaper(IF ls.has THEN ls.val ELSE <<>>, paper)]
         IN [home |-> LoadSaved(h, meta), ls |-> meta]

ToggleSave(paper) ==
    /\ route = "home"
    /\ ~home.loading
    /\ \E i \in DOMAIN home.papers : home.papers[i] = paper
    /\ lsPapers' = Toggled(home, lsPapers, paper).ls
    /\ home' = Toggled(home, lsPapers, paper).home
    /\ UNCHANGED <<lsHistory, recent, alerts, lsProfile, used, lsPosters, route, lib, digestMeta, chans, reqs, now>>

\* new EventSource(...): the handlers close over the paper and over the
\* savedPosters of the render in which the button was clicked.  attempts
\* counts the connections the EventSource has made; terminal tells whether
\* the stream has delivered a complete or an error event.
NewChannel(v, paper, snap) ==
    [view |-> v, live |-> TRUE, paper |-> paper, snap |-> snap, open |-> TRUE,
     attempts |-> 1, terminal |-> FALSE]

\* Analyze controls that stayed enabled during an analysis.
NeverDisabled(id) == FALSE
\* disabled={!!analyzingId}
Disabled(id) == id # NoId

\* handleAnalyze of the search view; the button is disabled while analyzingId
\* is set.
HomeAnalyze(paper) ==
    /\ route = "home"
    /\ ~home.loading
    /\ \E i \in DOMAIN home.papers : home.papers[i] = paper
    /\ ~Disabled(home.analyzingId)
    /\ IF Cached(home.savedPosters, paper.id)
       THEN /\ home' = [home EXCEPT !.posterUrl = home.savedPosters[paper.id]]
            /\ UNCHANGED <<chans, used>>
       ELSE /\ used.chans < MaxChans
            /\ used' = [used EXCEPT !.chans = @ + 1]
            /\ home' = [home EXCEPT !.analyzingId = paper.id,
                                    !.analyzingStatus = Starting]
            /\ chans' = Append(chans, NewChannel("home", paper, home.savedPosters))
    /\ UNCHANGED <<lsHistory, recent, alerts, lsProfile, lsPapers, lsPosters, route, lib, digestMeta, reqs, now>>

\* The modal's close button: setPosterUrl(null).
ClosePoster ==
    /\ route \in {"home", "library"}
    /\ IF route = "home" THEN home.posterUrl # NoUrl ELSE lib.posterUrl # NoUrl
    /\ home' = IF route = "home" THEN [home EXCEPT !.posterUrl = NoUrl] ELSE home
    /\ lib' = IF route = "library" THEN [lib EXCEPT !.posterUrl = NoUrl] ELSE lib
    /\ UNCHANGED <<lsHistory, recent, alerts, lsProfile, used, lsPapers, lsPosters, route, digestMeta, chans, reqs, now>>

\* ----------------------------------------------------------- library view
\* handleAnalyze of the library view; the Poster button of a paper is an
\* analyze button only while the paper has no cached poster.
LibAnalyze(paper) ==
    /\ route = "library"
    /\ \E i \in DOMAIN lib.savedPapers : lib.savedPapers[i] = paper
    /\ ~Cached(lib.savedPosters, paper.id)
    /\ ~Disabled(lib.analyzingId)
    /\ used.chans < MaxChans
    /\ used' = [used EXCEPT !.chans = @ + 1]
    /\ lib' = [lib EXCEPT !.analyzingId = paper.id, !.analyzingStatus = Starting]
    /\ chans' = Append(chans, NewChannel("library", paper, lib.savedPosters))
    /\ UNCHANGED <<lsHistory, recent, alerts, lsProfile, lsPapers, lsPosters, route, home, digestMeta, reqs, now>>

HandleViewPoster(paperId) ==
    /\ route = "library"
    /\ Cached(lib.savedPosters, paperId)
    /\ paperId \in Keys(lib.savedPapers)
    /\ lib' = [lib EXCEPT !.posterUrl = lib.savedPosters[paperId]]
    /\ UNCHANGED <<lsHistory, recent, alerts, lsProfile, used, lsPapers, lsPosters, route, home, digestMeta, chans,
                   reqs, now>>

\* handleFileUpload up to its await.  The toolbar's upload button is disabled
\* while uploading; the empty library's "Upload your first paper" is not.
HandleFileUpload ==
    /\ route = "library"
    /\ ~lib.uploading \/ lib.savedPapers = <<>>
    /\ used.reqs < MaxReqs
    /\ used' = [used EXCEPT !.reqs = @ + 1]
    /\ lib' = [lib EXCEPT !.uploading = TRUE]
    /\ reqs' = Fetch("upload")
    /\ UNCHANGED <<lsHistory, recent, alerts, lsProfile, lsPapers, lsPosters, route, home, digestMeta, chans, now>>

\* handleFileUpload after its await: savePaperToLibrary(newPaper) and the
\* success alert, or the catch with its alert; setUploading(false) in either.
UploadResponse(i, ok, filename) ==
    /\ i \in DOMAIN reqs
    /\ reqs[i].kind = "upload"
    /\ LET newPaper == Paper(LocalId(now), filename, TRUE)
           saved == SetPaper(ParsedPapers, newPaper)
           live == Live(reqs[i])
       IN /\ lsPapers' = IF ok THEN [has |-> TRUE, val |-> saved] ELSE lsPapers
          /\ lib' = IF live
                    THEN [lib EXCEPT !.savedPapers = IF ok THEN Reverse(saved) ELSE @,
                                     !.uploading = FALSE]
                    ELSE lib
    /\ reqs' = RemoveAt(reqs, i)
    /\ alerts' = alerts + 1
    /\ UNCHANGED <<lsHistory, recent, lsProfile, used, lsPosters, route, home, digestMeta, chans, now>>

\* handleRemove; the Remove button exists for uploaded papers only.
HandleRemove(paperId, confirmed) ==
    /\ route = "library"
    /\ \E i \in DOMAIN lib.savedPapers :
          lib.savedPapers[i].id = paperId /\ lib.savedPapers[i].is_local
    /\ IF confirmed
       THEN LET newPosters == DropPoster(lib.savedPosters, paperId)
            IN /\ lib' = [lib EXCEPT !.savedPapers = DeleteKey(@, paperId),
                                     !.savedPosters = newPosters]
               /\ lsPapers' = IF lsPapers.has
                              THEN [has |-> TRUE, val |-> DeleteKey(lsPapers.val, paperId)]
                              ELSE lsPapers
               /\ lsPosters' = [has |-> TRUE, val |-> newPosters]
       ELSE UNCHANGED <<lib, lsPapers, lsPosters>>
    /\ UNCHANGED <<lsHistory, recent, alerts, lsProfile, used, route, home, digestMeta, chans, reqs, now>>

\* ------------------------------------------------------ interest analysis
\* What /api/analyze-library may answer.
Suggestions == {<<>>, <<"q1">>}
Directions == {<<"d1">>}

\* const uploadedPapers = savedPapers.filter(p => p.is_local)
UploadedPapers(l) == SelectSeq(l.savedPapers, LAMBDA p : p.is_local)

\* Array.prototype.sort on the ids "local-<ms>", by insertion.
RECURSIVE InsertId(_, _)
InsertId(x, s) ==
    IF s = <<>> THEN <<x>>
    ELSE IF x[2] <= Head(s)[2] THEN <<x>> \o s
         ELSE <<Head(s)>> \o InsertId(x, Tail(s))
\* A fingerprint that kept the order of the papers.
NoSort(s) == s
RECURSIVE SortIds(_)
SortIds(s) == IF s = <<>> THEN <<>> ELSE InsertId(Head(s), SortIds(Tail(s)))

\* uploadedPapers.map(p => p.id).sort().join('|'): the sorted ids stand for
\* the joined string.
PaperHash(ps) == SortIds([i \in DOMAIN ps |-> ps[i].id])

\* The stored profile answers for the current papers.
ProfileHit(h) ==
    /\ lsProfile.has
    /\ lsProfile.val.paper_hash = h
    /\ Len(lsProfile.val.suggested_queries) > 0

\* handleAnalyzeInterests up to its await; the button exists while the
\* library is not empty and is disabled while analyzingInterests.
HandleAnalyzeInterests ==
    /\ route = "library"
    /\ lib.savedPapers # <<>>
    /\ ~lib.analyzingInterests
    /\ LET up == UploadedPapers(lib)
           currentHash == PaperHash(up)
       IN IF up = <<>>
          THEN /\ alerts < MaxAlerts
               /\ alerts' = alerts + 1
               /\ UNCHANGED <<lib, reqs, used>>
          ELSE IF ProfileHit(currentHash)
          THEN /\ lib' = [lib EXCEPT
                            !.suggestedQueries = lsProfile.val.suggested_queries,
                            !.researchDirections = lsProfile.val.research_directions,
                            !.showSuggestions = TRUE,
                            !.analyzingInterests = FALSE]
               /\ UNCHANGED <<alerts, reqs, used>>
          ELSE /\ used.reqs < MaxReqs
               /\ used' = [used EXCEPT !.reqs = @ + 1]
               /\ lib' = [lib EXCEPT !.analyzingInterests = TRUE]
               /\ reqs' = Append(reqs, Request("interests", currentHash))
               /\ UNCHANGED alerts
    /\ UNCHANGED <<lsHistory, recent, lsPapers, lsPosters, lsProfile, route, home, digestMeta, chans, now>>

\* A stored profile that kept the fingerprint of the profile it replaces.
StoredProfileStale(req, queries, directions) ==
    Profile(queries, directions, lsProfile.val.paper_hash)
\* The profile object written after a successful analysis: paper_hash is the
\* currentHash computed before the request was sent.
StoredProfile(req, queries, directions) == Profile(queries, directions, req.hash)

\* handleAnalyzeInterests after its await: the new profile is shown and
\* stored, or the catch with its alert; setAnalyzingInterests(false) in either.
InterestsResponse(i, ok, queries, directions) ==
    /\ i \in DOMAIN reqs
    /\ reqs[i].kind = "interests"
    /\ lsProfile' = IF ok
                    THEN [has |-> TRUE, val |-> StoredProfile(reqs[i], queries, directions)]
                    ELSE lsProfile
    /\ lib' = IF Live(reqs[i])
              THEN IF ok
                   THEN [lib EXCEPT !.suggestedQueries = queries,
                                    !.researchDirections = directions,
                                    !.showSuggestions = TRUE,
                                    !.analyzingInterests = FALSE]
                   ELSE [lib EXCEPT !.analyzingInterests = FALSE]
              ELSE lib
    /\ alerts' = IF ok THEN alerts ELSE alerts + 1
    /\ reqs' = RemoveAt(reqs, i)
    /\ UNCHANGED <<lsHistory, recent, lsPapers, lsPosters, route, home, digestMeta, chans, used, now>>

\* ------------------------------------------------------------ digest view
\* The promise chain of DigestPage's effect: setMeta(data), or console.error.
DigestResponse(i, ok) ==
    /\ i \in DOMAIN reqs
    /\ reqs[i].kind = "digest"
    /\ digestMeta' = IF ok /\ Live(reqs[i]) THEN TRUE ELSE digestMeta
    /\ reqs' = RemoveAt(reqs, i)
    /\ UNCHANGED <<lsHistory, recent, alerts, lsProfile, used, lsPapers, lsPosters, route, home, lib, chans, now>>

\* ------------------------------------------------------ analysis channels
\* The events /api/analyze-stream may push: event.data is not JSON
\* ("unparseable"), or JSON of some type; a complete event may lack its result.
Event(t, m, r) == [type |-> t, message |-> m, result |-> r]
Events ==
    {Event("progress", m, NoUrl) : m \in Msgs}
    \cup {Event("complete", "", r) : r \in Urls \cup {NoUrl}}
    \cup {Event("error", m, NoUrl) : m \in Msgs}
    \cup {Event("other", "", NoUrl), Event("unparseable", "", NoUrl)}

\* A handler that treated progress events as results too.
HasResultOrProgress(ev) == ev.type \in {"complete", "progress"}
\* data.result.image_url is read without a TypeError.
HasResult(ev) == ev.type = "complete" /\ ev.result # NoUrl

\* A closed EventSource dispatches nothing more: it is dropped.
StillOpen(s) == SelectSeq(s, LAMBDA ch : ch.open)
\* eventSource.close()
Closed(ch) == [ch EXCEPT !.open = FALSE]
\* An EventSource that is still open after a transport error reconnects.
Reconnect(ch) == IF ch.open THEN [ch EXCEPT !.attempts = @ + 1] ELSE ch

\* The stream after it has delivered ev.
Delivered(ch, ev) ==
    [ch EXCEPT !.terminal = @ \/ ev.type \in {"complete", "error"}]
\* An onmessage that closed its EventSource on every event.
OnMessageChannelClose(ch, ev) == Closed(Delivered(ch, ev))
\* What onmessage does to its EventSource.
OnMessageChannel(ch, ev) ==
    IF HasResult(ev) \/ ev.type = "error"
    THEN Closed(Delivered(ch, ev))
    ELSE Delivered(ch, ev)
\* An onerror that left its EventSource open.
OnErrorChannelKeep(ch) == ch
\* What onerror does to its EventSource.
OnErrorChannel(ch) == Closed(ch)

\* A new cache built from the persisted cache as it is when the event arrives.
NewCacheFresh(ch, url) == PutPoster(lsPosters.val, ch.paper.id, url)
\* const newCache = { ...savedPosters, [paper.id]: url }
NewCache(ch, url) == PutPoster(ch.snap, ch.paper.id, url)

\* savePosterToCache of the search view: the poster cache is written from the
\* captured savedPosters, then the paper is saved into the library.
SavePosterToCache(ch, url) ==
    [posters |-> [has |-> TRUE, val |-> NewCache(ch, url)],
     papers |-> SavePaperToLibrary(ch.paper)]
\* A library savePosterToCache that saved the paper as the search view's does.
LibSavePosterAndPaper(ch, url) ==
    [posters |-> [has |-> TRUE, val |-> NewCache(ch, url)],
     papers |-> [has |-> TRUE, val |-> SetPaper(ParsedPapers, ch.paper)]]
\* savePosterToCache of the library view: the poster cache only.
LibSavePosterToCache(ch, url) ==
    [posters |-> [has |-> TRUE, val |-> NewCache(ch, url)],
     papers |-> lsPapers]

\* The setState calls of onmessage in the search view.
HomeReduce(h, ch, ev) ==
    CASE ev.type = "progress" -> [h EXCEPT !.analyzingStatus = ev.message]
      [] HasResult(ev) ->
            [h EXCEPT !.posterUrl = ev.result,
                      !.savedPosters = NewCache(ch, ev.result),
                      !.analyzingId = NoId,
                      !.analyzingStatus = ""]
      [] ev.type = "error" -> [h EXCEPT !.analyzingId = NoId, !.analyzingStatus = ""]
      [] OTHER -> h

\* The setState calls of onmessage in the library view.
LibReduce(l, ch, ev) ==
    CASE ev.type = "progress" -> [l EXCEPT !.analyzingStatus = ev.message]
      [] HasResult(ev) ->
            [l EXCEPT !.posterUrl = ev.result,
                      !.savedPosters = NewCache(ch, ev.result),
                      !.analyzingId = NoId,
                      !.analyzingStatus = ""]
      [] ev.type = "error" -> [l EXCEPT !.analyzingId = NoId, !.analyzingStatus = ""]
      [] OTHER -> l

\* eventSource.onmessage of the search view.
HomeOnMessage(c, ev) ==
    /\ c \in DOMAIN chans
    /\ chans[c].open
    /\ chans[c].view = "home"
    /\ LET ch == chans[c]
           h1 == IF Live(ch) THEN HomeReduce(home, ch, ev) ELSE home
           saved == SavePosterToCache(ch, ev.result)
       IN /\ lsPosters' = IF HasResult(ev) THEN saved.posters ELSE lsPosters
          /\ lsPapers' = IF HasResult(ev) THEN saved.papers ELSE lsPapers
          /\ home' = IF HasResult(ev) THEN Dispatched(h1, lsPapers') ELSE h1
          /\ chans' = StillOpen([chans EXCEPT ![c] = OnMessageChannel(ch, ev)])
    /\ alerts' = IF ev.type = "error" THEN alerts + 1 ELSE alerts
    /\ UNCHANGED <<lsHistory, recent, lsProfile, used, route, lib, digestMeta, reqs, now>>

\* eventSource.onmessage of the library view.
LibOnMessage(c, ev) ==
    /\ c \in DOMAIN chans
    /\ chans[c].open
    /\ chans[c].view = "library"
    /\ LET ch == chans[c]
           saved == LibSavePosterToCache(ch, ev.result)
       IN /\ lsPosters' = IF HasResult(ev) THEN saved.posters ELSE lsPosters
          /\ lsPapers' = IF HasResult(ev) THEN saved.papers ELSE lsPapers
          /\ lib' = IF Live(ch) THEN LibReduce(lib, ch, ev) ELSE lib
          /\ chans' = StillOpen([chans EXCEPT ![c] = OnMessageChannel(ch, ev)])
    /\ alerts' = IF ev.type = "error" THEN alerts + 1 ELSE alerts
    /\ UNCHANGED <<lsHistory, recent, lsProfile, used, route, home, digestMeta, reqs, now>>

\* eventSource.onerror of either view: close, then reset the analysis state.
OnError(c) ==
    /\ c \in DOMAIN chans
    /\ chans[c].open
    /\ LET ch == chans[c]
       IN /\ home' = IF Live(ch) /\ ch.view = "home"
                     THEN [home EXCEPT !.analyzingId = NoId, !.analyzingStatus = ""]
                     ELSE home
          /\ lib' = IF Live(ch) /\ ch.view = "library"
                    THEN [lib EXCEPT !.analyzingId = NoId, !.analyzingStatus = ""]
                    ELSE lib
          /\ chans' = StillOpen([chans EXCEPT ![c] = Reconnect(OnErrorChannel(ch))])
    /\ UNCHANGED <<lsHistory, recent, alerts, lsProfile, used, lsPapers, lsPosters, route, digestMeta, reqs, now>>

\* ---------------------------------------------------------- specification
Routes == {"home", "library", "digest"}
LocalIds == {LocalId(t) : t \in 0..MaxClock}
AllPapers ==
    {Paper(i, t, FALSE) : i \in SearchIds, t \in Titles}
    \cup {Paper(i, t, TRUE) : i \in LocalIds, t \in Titles}

Next ==
    \/ \E to \in Routes, q \in BOOLEAN : Navigate(to, q)
    \/ Tick
    \/ \E q \in TypedQueries : HandleSearch(q)
    \/ \E i \in 1..MaxReqs, ok \in BOOLEAN, data \in SearchResults :
          SearchResponse(i, ok, data)
    \/ \E p \in AllPapers : ToggleSave(p)
    \/ \E p \in AllPapers : HomeAnalyze(p)
    \/ ClosePoster
    \/ \E p \in AllPapers : LibAnalyze(p)
    \/ \E k \in LocalIds : HandleViewPoster(k)
    \/ HandleFileUpload
    \/ \E i \in 1..MaxReqs, ok \in BOOLEAN, f \in Titles : UploadResponse(i, ok, f)
    \/ \E k \in LocalIds, confirmed \in BOOLEAN : HandleRemove(k, confirmed)
    \/ HandleAnalyzeInterests
    \/ \E i \in 1..MaxReqs, ok \in BOOLEAN, q \in Suggestions, d \in Directions :
          InterestsResponse(i, ok, q, d)
    \/ \E i \in 1..MaxReqs, ok \in BOOLEAN : DigestResponse(i, ok)
    \/ \E c \in 1..MaxChans, ev \in Events : HomeOnMessage(c, ev)
    \/ \E c \in 1..MaxChans, ev \in Events : LibOnMessage(c, ev)
    \/ \E c \in 1..MaxChans : OnError(c)

Spec == Init /\ [][Next]_vars

\* The library view opened on a store that an earlier session left: one or
\* two uploaded papers, and no profile or the profile of an earlier analysis
\* of one or of both of them.
OldStores ==
    {<<Paper(LocalId(0), "t1", TRUE)>>,
     <<Paper(LocalId(0), "t1", TRUE), Paper(LocalId(1), "t1", TRUE)>>}
OldProfiles ==
    {Profile(q, <<"d0">>, h) :
        q \in {<<"q0">>, <<>>}, h \in {<<LocalId(0)>>, <<LocalId(0), LocalId(1)>>}}
LibSpecInit ==
    /\ lsPapers \in {[has |-> TRUE, val |-> m] : m \in OldStores}
    /\ lsPosters = [has |-> FALSE, val |-> EmptyMap]
    /\ lsProfile \in {[has |-> FALSE, val |-> NoProfile]}
                      \cup {[has |-> TRUE, val |-> p] : p \in OldProfiles}
    /\ route = "library"
    /\ home = HomeInit
    /\ lib = LibMounted
    /\ digestMeta = FALSE
    /\ chans = <<>>
    /\ reqs = <<>>
    /\ used = [mounts |-> 0, chans |-> 0, reqs |-> 0]
    /\ now = Len(lsPapers.val) - 1
    /\ alerts = 0
    /\ lsHistory = [has |-> FALSE, val |-> <<>>]
    /\ recent = <<>>
LibSpecNext ==
    \/ Tick
    \/ HandleFileUpload
    \/ \E i \in 1..MaxReqs, ok \in BOOLEAN, f \in Titles : UploadResponse(i, ok, f)
    \/ \E k \in LocalIds, confirmed \in BOOLEAN : HandleRemove(k, confirmed)
    \/ HandleAnalyzeInterests
    \/ \E i \in 1..MaxReqs, ok \in BOOLEAN, q \in Suggestions, d \in Directions :
          InterestsResponse(i, ok, q, d)
LibSpec == LibSpecInit /\ [][LibSpecNext]_vars

\* The search view opened on a store that holds the search history of an
\* earlier session: none, or the last n queries, most recent first.
OldHistories == {[i \in 1..n |-> Query(i)] : n \in 1..HistoryLimit}
HistSpecInit ==
    /\ lsPapers = [has |-> FALSE, val |-> <<>>]
    /\ lsPosters = [has |-> FALSE, val |-> EmptyMap]
    /\ lsProfile = [has |-> FALSE, val |-> NoProfile]
    /\ route = "home"
    /\ home = HomeInit
    /\ lib = LibInit
    /\ digestMeta = FALSE
    /\ chans = <<>>
    /\ reqs = <<>>
    /\ used = [mounts |-> 0, chans |-> 0, reqs |-> 0]
    /\ now = 0
    /\ alerts = 0
    /\ lsHistory \in {[has |-> FALSE, val |-> <<>>]}
                      \cup {[has |-> TRUE, val |-> h] : h \in OldHistories}
    /\ recent = IF lsHistory.has THEN RecentSearches(lsHistory.val) ELSE <<>>
HistSpecNext ==
    \/ \E q \in Inputs : HandleSearch(q)
    \/ \E i \in 1..MaxReqs, ok \in BOOLEAN, data \in SearchResults :
          SearchResponse(i, ok, data)
HistSpec == HistSpecInit /\ [][HistSpecNext]_vars

\* --------------------------------------------- the poster cache migration
\* The poster caches an earlier version of the application may have left:
\* image URLs, HTML documents (with or without leading whitespace), the
\* empty string and null, under the ids of two papers. The session starts in
\* the library, or in the search view after its load effect.
OldValues ==
    Urls \cup {<<" ", "u">>, <<"<", "h">>, <<" ", "<", "h">>, <<>>, NoUrl}
OldCaches ==
    {[has |-> FALSE, val |-> EmptyMap]}
    \cup {[has |-> TRUE, val |-> m] :
              m \in UNION {[ks -> OldValues] : ks \in SUBSET SearchIds}}
MigrSpecInit ==
    /\ lsPapers = [has |-> FALSE, val |-> <<>>]
    /\ lsProfile = [has |-> FALSE, val |-> NoProfile]
    /\ lsHistory = [has |-> FALSE, val |-> <<>>]
    /\ recent = <<>>
    /\ route \in {"home", "library"}
    /\ \E old \in OldCaches :
          /\ lsPosters = IF route = "home" THEN LoadCache(old) ELSE old
          /\ home = IF route = "home"
                    THEN [HomeInit EXCEPT !.savedPosters =
                             IF old.has THEN CleanCache(old.val) ELSE EmptyMap]
                    ELSE HomeInit
          /\ lib = IF route = "library"
                   THEN [LibInit EXCEPT !.savedPosters = old.val]
                   ELSE LibInit
    /\ digestMeta = FALSE
    /\ chans = <<>>
    /\ reqs = <<>>
    /\ used = [mounts |-> 0, chans |-> 0, reqs |-> 0]
    /\ now = 0
    /\ alerts = 0
MigrSpecNext == \E to \in Routes, q \in BOOLEAN : Navigate(to, q)
MigrSpec == MigrSpecInit /\ [][MigrSpecNext]_vars

\* ------------------------------------------------ the order of the library
\* The search view after one submitted search has been answered with two
\* papers: from here papers are saved, analysed and uploaded, and removed.
OrderSpecInit ==
    /\ lsPapers = [has |-> FALSE, val |-> <<>>]
    /\ lsPosters = [has |-> FALSE, val |-> EmptyMap]
    /\ lsProfile = [has |-> FALSE, val |-> NoProfile]
    /\ lsHistory = [has |-> TRUE, val |-> <<Query(1)>>]
    /\ recent = <<Query(1)>>
    /\ route = "home"
    /\ home = [HomeInit EXCEPT
                  !.papers = <<Paper(ArxivId(1), "t1", FALSE), Paper(ArxivId(2), "t1", FALSE)>>]
    /\ lib = LibInit
    /\ digestMeta = FALSE
    /\ chans = <<>>
    /\ reqs = <<>>
    /\ used = [mounts |-> 0, chans |-> 0, reqs |-> 0]
    /\ now = 0
    /\ alerts = 0
OrderSpecNext ==
    \/ \E to \in {"home", "library"} : Navigate(to, FALSE)
    \/ Tick
    \/ \E p \in AllPapers : ToggleSave(p)
    \/ \E p \in AllPapers : HomeAnalyze(p)
    \/ \E c \in 1..MaxChans, ev \in Events : HomeOnMessage(c, ev)
    \/ HandleFileUpload
    \/ \E i \in 1..MaxReqs, ok \in BOOLEAN, f \in Titles : UploadResponse(i, ok, f)
    \/ \E k \in LocalIds, confirmed \in BOOLEAN : HandleRemove(k, confirmed)
OrderSpec == OrderSpecInit /\ [][OrderSpecNext]_vars

\* --------------------------------------------------------------- fairness
\* A fetch settles: its promise is fulfilled or rejected, and the code after
\* the await runs.  Nothing obliges the user to act or the backend to push
\* another event on an open channel.
Settles ==
    \/ \E i \in 1..MaxReqs, ok \in BOOLEAN, data \in SearchResults :
          SearchResponse(i, ok, data)
    \/ \E i \in 1..MaxReqs, ok \in BOOLEAN, f \in Titles : UploadResponse(i, ok, f)
    \/ \E i \in 1..MaxReqs, ok \in BOOLEAN, q \in Suggestions, d \in Directions :
          InterestsResponse(i, ok, q, d)
    \/ \E i \in 1..MaxReqs, ok \in BOOLEAN : DigestResponse(i, ok)
FairSpec == Spec /\ WF_vars(Settles)

\* ------------------------------------------------------------------ claims
PaperKeys == Keys(lsPapers.val)
PosterKeys == DOMAIN lsPosters.val
CompleteEvents == {ev \in Events : ev.type = "complete"}

\* C1 (as claimed): in every reachable state every key of the poster cache is
\* a key of the saved-paper map.
C1_PosterKeysSubset == PosterKeys \subseteq PaperKeys

\* C2 (as claimed): a step that removes a paper record from the persisted
\* paper map leaves no poster-cache entry under that paper id.
C2_RemovalDropsPoster ==
    [][\A k \in PaperKeys : k \notin PaperKeys' => k \notin PosterKeys']_vars

\* C3: saving a paper into any reachable persisted map twice gives the map
\* that saving it once gives, and that map has exactly one record under the
\* paper's id.
C3_SaveTwice ==
    \A p \in AllPapers :
        LET once == SetPaper(ParsedPapers, p)
            twice == SetPaper(once, p)
        IN /\ twice = once
           /\ Cardinality({i \in DOMAIN once : once[i].id = p.id}) = 1

\* C3 witness: a persisted map of two records that holds the paper saved again.
C3_Witness ==
    /\ Len(lsPapers.val) = 2
    /\ \E p \in AllPapers : \E i \in DOMAIN lsPapers.val : lsPapers.val[i] = p

\* C4 (as claimed): a record that stays in the persisted paper map keeps its
\* stored fields.
C4_RecordNeverMutated ==
    [][\A i \in DOMAIN lsPapers.val :
          lsPapers.val[i].id \in PaperKeys' =>
              \E j \in DOMAIN lsPapers'.val : lsPapers'.val[j] = lsPapers.val[i]]_vars

\* The steps by which the user explicitly saves a paper under id k: the star
\* of an unsaved search result, or an upload that succeeds at clock value k.
ExplicitSave(k) ==
    \/ \E p \in AllPapers : p.id = k /\ ToggleSave(p)
    \/ \E i \in DOMAIN reqs, f \in Titles : k = LocalId(now) /\ UploadResponse(i, TRUE, f)
\* The steps by which the user explicitly removes the paper under id k: the
\* star of a saved search result, or a confirmed removal in the library.
ExplicitRemoval(k) ==
    \/ \E p \in AllPapers : p.id = k /\ ToggleSave(p)
    \/ HandleRemove(k, TRUE)
\* A complete event with a result arrives on an analysis channel of the search
\* view whose paper has id k.
HomeCompletes(k) ==
    \E c \in DOMAIN chans, ev \in CompleteEvents :
        /\ chans[c].paper.id = k
        /\ HasResult(ev)
        /\ HomeOnMessage(c, ev)

\* C5 (as claimed): a paper id enters the persisted paper map only in a step
\* that stars or uploads that paper, and leaves it only in a step that
\* explicitly removes it.
C5_OnlyExplicitSaves ==
    [][/\ \A k \in PaperKeys' \ PaperKeys : ExplicitSave(k)
       /\ \A k \in PaperKeys \ PaperKeys' : ExplicitRemoval(k)]_vars

\* C5 (amended): a paper id enters the persisted paper map only in a step that
\* stars or uploads that paper or in which a search-view analysis of that paper
\* completes with a result; it leaves only in a step that explicitly removes it.
C5_SavesOrHomeCompletion ==
    [][/\ \A k \in PaperKeys' \ PaperKeys : ExplicitSave(k) \/ HomeCompletes(k)
       /\ \A k \in PaperKeys \ PaperKeys' : ExplicitRemoval(k)]_vars

\* C5 witness: an analysis of a search result that is not in the paper map is
\* pending in the search view, so its completion is what saves the paper.
C5_Witness ==
    \E c \in DOMAIN chans :
        /\ chans[c].view = "home"
        /\ chans[c].paper.id \notin PaperKeys
        /\ ENABLED (\E ev \in CompleteEvents :
                        HomeOnMessage(c, ev) /\ lsPapers'.val # lsPapers.val)

\* A complete event with a result arrives on an analysis channel c.
Completes(c) ==
    \E ev \in CompleteEvents :
        HasResult(ev) /\ (HomeOnMessage(c, ev) \/ LibOnMessage(c, ev))

\* C6 (as claimed): a poster-cache entry for id k comes into existence only in
\* a step in which an analysis of paper k completes.
C6_OnlyOwnCompletion ==
    [][\A k \in PosterKeys' \ PosterKeys :
          \E c \in DOMAIN chans : chans[c].paper.id = k /\ Completes(c)]_vars

\* C6 (amended): a poster-cache entry for id k comes into existence only in a
\* step in which an analysis completes whose paper is k or whose captured
\* savedPosters still holds k, or in a confirmed library removal of another
\* paper while the view's savedPosters still holds k; no progress event, error
\* event or transport error adds an entry.
C6_CompletionOrStaleCache ==
    [][\A k \in PosterKeys' \ PosterKeys :
          \/ \E c \in DOMAIN chans :
                /\ chans[c].paper.id = k \/ k \in DOMAIN chans[c].snap
                /\ Completes(c)
          \/ \E j \in LocalIds \ {k} :
                /\ k \in DOMAIN lib.savedPosters
                /\ HandleRemove(j, TRUE)]_vars

\* C6 witness: an analysis is pending whose captured savedPosters holds an id
\* that the persisted poster cache no longer holds.
C6_Witness ==
    \E c \in DOMAIN chans :
        /\ (DOMAIN chans[c].snap) \ PosterKeys # {}
        /\ ENABLED (\E ev \in CompleteEvents :
                        /\ HomeOnMessage(c, ev) \/ LibOnMessage(c, ev)
                        /\ DOMAIN lsPosters'.val # DOMAIN lsPosters.val)

\* C7 (as claimed): a channel that has received a complete or an error event
\* is closed, so no open channel has delivered one.
C7_OneShot == \A c \in DOMAIN chans : ~chans[c].terminal

\* The view state an analysis channel of view v reduces into.
ViewOf(v) == IF v = "home" THEN home ELSE lib
\* The same view state after the step.
ViewAfter(v) == IF v = "home" THEN home' ELSE lib'
\* The handler of event ev runs on channel c.
OnMessage(c, ev) == HomeOnMessage(c, ev) \/ LibOnMessage(c, ev)

\* C8 (as claimed): in a step in which the view that opened channel c is still
\* mounted and an event arrives on c, a progress event sets analyzingStatus to
\* its message and leaves analyzingId, the displayed poster and the store; a
\* complete event displays and caches the result under the paper's id and
\* resets analyzingId and analyzingStatus; an error event resets both and
\* leaves the store.
C8_Reducer ==
    [][\A c \in DOMAIN chans, ev \in Events :
          (Live(chans[c]) /\ OnMessage(c, ev)) =>
              LET v == chans[c].view
                  k == chans[c].paper.id
              IN /\ ev.type = "progress" =>
                       /\ ViewAfter(v).analyzingStatus = ev.message
                       /\ ViewAfter(v).analyzingId = ViewOf(v).analyzingId
                       /\ ViewAfter(v).posterUrl = ViewOf(v).posterUrl
                       /\ UNCHANGED <<lsPapers, lsPosters, lsProfile>>
                 /\ ev.type = "complete" =>
                       /\ ViewAfter(v).posterUrl = ev.result
                       /\ k \in DOMAIN lsPosters'.val
                       /\ lsPosters'.val[k] = ev.result
                       /\ ViewAfter(v).analyzingId = NoId
                       /\ ViewAfter(v).analyzingStatus = ""
                 /\ ev.type = "error" =>
                       /\ ViewAfter(v).analyzingId = NoId
                       /\ ViewAfter(v).analyzingStatus = ""
                       /\ UNCHANGED <<lsPapers, lsPosters, lsProfile>>]_vars

\* The steps in which an interaction with the backend fails.
BackendFailure ==
    \/ \E i \in DOMAIN reqs, data \in SearchResults : SearchResponse(i, FALSE, data)
    \/ \E i \in DOMAIN reqs, f \in Titles : UploadResponse(i, FALSE, f)
    \/ \E i \in DOMAIN reqs, q \in Suggestions, d \in Directions :
          InterestsResponse(i, FALSE, q, d)
    \/ \E i \in DOMAIN reqs : DigestResponse(i, FALSE)
    \/ \E c \in DOMAIN chans, ev \in Events : ev.type = "error" /\ OnMessage(c, ev)
    \/ \E c \in DOMAIN chans : OnError(c)

\* C9 (as claimed): every step in which an interaction with the backend fails
\* raises an alert.
C9_EveryFailureAlerts == [][BackendFailure => alerts' = alerts + 1]_vars

\* The steps that are an act of the user which opens a request or a channel.
UserAction ==
    \/ \E to \in Routes, q \in BOOLEAN : Navigate(to, q)
    \/ \E q \in Inputs : HandleSearch(q)
    \/ HandleFileUpload
    \/ HandleAnalyzeInterests
    \/ \E p \in AllPapers : HomeAnalyze(p) \/ LibAnalyze(p)

\* C10: a step opens at most one request or channel and only if it is an act
\* of the user, and no channel ever makes a second connection attempt.
C10_NeverRetries ==
    [][/\ Len(chans') + Len(reqs') <= Len(chans) + Len(reqs) + 1
       /\ (Len(chans') > Len(chans) \/ Len(reqs') > Len(reqs)) => UserAction
       /\ \A c \in DOMAIN chans' : chans'[c].attempts = 1]_vars

\* C10 witness: the one analysis started in the search view has ended with no
\* alert and no poster, that is by a transport error, and nothing is open.
C10_Witness ==
    /\ route = "home"
    /\ used.mounts = 0
    /\ used.chans = 1
    /\ chans = <<>>
    /\ reqs = <<>>
    /\ alerts = 0
    /\ ~lsPosters.has
    /\ home.analyzingId = NoId

\* A route change.
Navigates == \E to \in Routes, q \in BOOLEAN : Navigate(to, q)

\* C11: a route change closes no channel and leaves what each channel
\* captured; on a channel whose view is unmounted a complete event with a
\* result can still arrive, and when it does the persisted poster cache
\* becomes the captured savedPosters plus the poster of the channel's paper.
C11_AbandonedNotCancelled ==
    /\ [](\A c \in DOMAIN chans :
             ~Live(chans[c]) =>
                 ENABLED (\E ev \in CompleteEvents : HasResult(ev) /\ OnMessage(c, ev)))
    /\ [][/\ Navigates =>
                /\ Len(chans') = Len(chans)
                /\ \A c \in DOMAIN chans :
                      /\ chans'[c].open
                      /\ ~Live(chans'[c])
                      /\ chans'[c].paper = chans[c].paper
                      /\ chans'[c].snap = chans[c].snap
          /\ \A c \in DOMAIN chans, ev \in CompleteEvents :
                (~Live(chans[c]) /\ HasResult(ev) /\ OnMessage(c, ev)) =>
                    lsPosters' = [has |-> TRUE,
                                  val |-> PutPoster(chans[c].snap, chans[c].paper.id,
                                                    ev.result)]]_vars

\* C11 witness: the only analysis of the run has completed, and the mounted
\* library view does not hold what the persisted poster cache holds: the
\* complete event arrived after the view that started the analysis was left.
C11_Witness ==
    /\ route = "library"
    /\ used.chans = 1
    /\ chans = <<>>
    /\ lsPosters.has
    /\ lsPosters.val # EmptyMap
    /\ lib.savedPosters # lsPosters.val

\* The ids the handlers of channel ch write when its analysis completes.
Written(ch) == (DOMAIN ch.snap) \cup {ch.paper.id}

\* C12: a complete event with a result can arrive on every open channel, and
\* when it does the persisted poster cache is overwritten from the savedPosters
\* the channel captured: an entry another updater persisted since then is
\* lost, and an entry another updater deleted since then is present again.
C12_LostUpdate ==
    /\ [](\A c \in DOMAIN chans :
             ENABLED (\E ev \in CompleteEvents : HasResult(ev) /\ OnMessage(c, ev)))
    /\ [][\A c \in DOMAIN chans, ev \in CompleteEvents :
             (HasResult(ev) /\ OnMessage(c, ev)) =>
                 /\ \A k \in PosterKeys \ Written(chans[c]) : k \notin PosterKeys'
                 /\ \A k \in (DOMAIN chans[c].snap) \ PosterKeys : k \in PosterKeys']_vars

\* C12 witness: an analysis is pending while the persisted poster cache holds
\* an entry that another analysis persisted after the pending one captured its
\* savedPosters, and the completion of the pending one loses that entry.
C12_Witness ==
    \E c \in DOMAIN chans :
        /\ PosterKeys \ Written(chans[c]) # {}
        /\ ENABLED (\E ev \in CompleteEvents :
                        /\ OnMessage(c, ev)
                        /\ \E k \in DOMAIN lsPosters.val : k \notin DOMAIN lsPosters'.val)

\* The sequences of distinct uploaded-paper ids.
IdSeqs ==
    {s \in UNION {[1..n -> LocalIds] : n \in 0..Cardinality(LocalIds)} :
        \A i, j \in DOMAIN s : s[i] = s[j] => i = j}
Range(s) == {s[i] : i \in DOMAIN s}
\* The persisted profile answers for the papers the library view shows.
FingerprintMatches ==
    /\ UploadedPapers(lib) # <<>>
    /\ lsProfile.has
    /\ lsProfile.val.paper_hash = PaperHash(UploadedPapers(lib))
    /\ Len(lsProfile.val.suggested_queries) > 0

\* C13: two sequences of the same uploaded-paper ids have the same
\* fingerprint; and a click on the interest analysis while the persisted
\* profile has the fingerprint of the current uploaded papers and suggested
\* queries sends no request and leaves the persisted profile as it is.
C13_FingerprintCache ==
    /\ [](\A s, t \in IdSeqs : Range(s) = Range(t) => SortIds(s) = SortIds(t))
    /\ [][(FingerprintMatches /\ HandleAnalyzeInterests) =>
              /\ reqs' = reqs
              /\ used' = used
              /\ lsProfile' = lsProfile
              /\ lib'.suggestedQueries = lsProfile.val.suggested_queries
              /\ ~lib'.analyzingInterests]_vars

\* C13 witness: the library shows two uploaded papers, newest first, the
\* persisted profile has their fingerprint, and the click shows its queries.
C13_Witness ==
    /\ Len(UploadedPapers(lib)) = 2
    /\ FingerprintMatches
    /\ ~lib.showSuggestions
    /\ ENABLED (HandleAnalyzeInterests /\ lib'.showSuggestions)

\* A successful answer to the interest analysis is handled.
InterestsSucceeds ==
    \E i \in DOMAIN reqs, q \in Suggestions, d \in Directions :
        InterestsResponse(i, TRUE, q, d)

HomeWrites ==
    \/ \E p \in AllPapers : ToggleSave(p)
    \/ \E c \in DOMAIN chans, ev \in CompleteEvents : HasResult(ev) /\ HomeOnMessage(c, ev)

\* C15: after a star toggle or an analysis-completion save made while the
\* search view is mounted, the view's savedIds is the key set of the persisted
\* paper map.
C15_SavedIdsInSync ==
    [][(route = "home" /\ HomeWrites) => home'.savedIds = PaperKeys']_vars

\* C15 witness: the tab was opened on the search view with an empty store and
\* the view now shows a saved paper, which it learnt from the signal.
C15_Witness ==
    /\ route = "home"
    /\ used.mounts = 0
    /\ home.savedIds # {}
    /\ home.savedIds = PaperKeys

\* C16 (as claimed): every step that adds or removes a paper record dispatches
\* library_updated after the write, so that whenever the search view, the
\* listener of the signal, is mounted after such a step, its savedIds is the
\* key set of the persisted paper map.
C16_EveryWriteNotifies ==
    [][(PaperKeys' # PaperKeys /\ route' = "home") => home'.savedIds = PaperKeys']_vars

\* C17: after a form-submitted search the Sidebar's recent searches are the
\* first five entries of the persisted search history, in the same order.
C17_RecentIsFirstFive ==
    [][(\E q \in Inputs : HandleSearch(q)) =>
          /\ lsHistory'.has
          /\ Len(recent') = (IF Len(lsHistory'.val) < 5 THEN Len(lsHistory'.val) ELSE 5)
          /\ \A i \in DOMAIN recent' : recent'[i] = lsHistory'.val[i]]_vars

\* C17 witness: a query that the earlier history did not hold has been
\* submitted, the persisted history is longer than five entries, and the
\* Sidebar shows five with the new query first.
C17_Witness ==
    /\ used.reqs > 0
    /\ Len(lsHistory.val) > 5
    /\ lsHistory.val[1] = Query(HistoryLimit + 1)
    /\ Len(recent) = 5
    /\ recent[1] = Query(HistoryLimit + 1)

\* A value whose first character after leading whitespace is '<'.
LeadsWithLt(v) ==
    \E i \in 1..Len(v) : v[i] = "<" /\ \A j \in 1..(i - 1) : v[j] = " "
KeptKeys(m) == {k \in DOMAIN m : m[k] # NoUrl /\ ~LeadsWithLt(m[k])}
\* C18: when the search view loads a persisted poster cache, the in-memory
\* cache and the persisted cache afterwards hold exactly the previously
\* persisted entries whose value is a string that does not start with '<'
\* after trimming, with keys and values unchanged; the persisted cache is
\* left as it was when no entry was dropped; and a second load would drop
\* nothing more.
C18_CacheMigration ==
    [][(route # "home" /\ route' = "home" /\ lsPosters.has) =>
          /\ DOMAIN home'.savedPosters = KeptKeys(lsPosters.val)
          /\ \A k \in KeptKeys(lsPosters.val) :
                home'.savedPosters[k] = lsPosters.val[k]
          /\ lsPosters'.has
          /\ lsPosters'.val = home'.savedPosters
          /\ (KeptKeys(lsPosters.val) = DOMAIN lsPosters.val
                 => lsPosters' = lsPosters)
          /\ LoadCache(lsPosters') = lsPosters'
          /\ CleanCache(home'.savedPosters) = home'.savedPosters]_vars
C18_Witness ==
    /\ route = "library"
    /\ lsPosters.has
    /\ \E k \in DOMAIN lsPosters.val : lsPosters.val[k] = <<" ", "<", "h">>
    /\ \E k \in DOMAIN lsPosters.val : lsPosters.val[k] = <<" ", "u">>
    /\ ENABLED (/\ Navigate("home", FALSE)
                /\ DOMAIN lsPosters'.val # DOMAIN lsPosters.val
                /\ home'.savedPosters = lsPosters'.val
                /\ home'.savedPosters # EmptyMap)

\* C19: handleAnalyze on the search view, for a paper whose poster is in the
\* view's cache, displays the cached poster, opens no channel, and leaves
\* analyzingId, analyzingStatus and the persisted store unchanged.
C19_CachedPosterShown ==
    [][\A p \in AllPapers :
          (/\ HomeAnalyze(p)
           /\ p.id \in DOMAIN home.savedPosters
           /\ home.savedPosters[p.id] \notin {<<>>, NoUrl}) =>
              /\ home'.posterUrl = home.savedPosters[p.id]
              /\ chans' = chans
              /\ used'.chans = used.chans
              /\ home'.analyzingId = home.analyzingId
              /\ home'.analyzingStatus = home.analyzingStatus
              /\ lsPapers' = lsPapers
              /\ lsPosters' = lsPosters
              /\ lsProfile' = lsProfile
              /\ lsHistory' = lsHistory]_vars
C19_Witness ==
    /\ route = "home"
    /\ home.posterUrl = NoUrl
    /\ \E i \in DOMAIN home.papers :
          /\ home.papers[i].id \in DOMAIN home.savedPosters
          /\ ENABLED (/\ HomeAnalyze(home.papers[i])
                      /\ home'.posterUrl = home.savedPosters[home.papers[i].id]
                      /\ home'.posterUrl \in Urls)

Others(m, k) == SelectSeq(m, LAMBDA r : r.id # k)
\* C20 as stated: a confirmed handleRemove(k) removes exactly the paper record
\* k and the poster entry k from the persisted store and from the view
\* state and leaves every other record and entry unchanged.
C20_RemovesExactlyK ==
    [][\A k \in LocalIds : HandleRemove(k, TRUE) =>
          /\ lsPapers'.val = Others(lsPapers.val, k)
          /\ lib'.savedPapers = Others(lib.savedPapers, k)
          /\ DOMAIN lib'.savedPosters = DOMAIN lib.savedPosters \ {k}
          /\ \A x \in DOMAIN lib'.savedPosters :
                lib'.savedPosters[x] = lib.savedPosters[x]
          /\ DOMAIN lsPosters'.val = PosterKeys \ {k}
          /\ \A x \in DOMAIN lsPosters'.val :
                lsPosters'.val[x] = lsPosters.val[x]]_vars
\* C20, amended: a confirmed handleRemove(k) removes the paper record k from
\* the persisted paper map and from the view's list, leaving every other
\* record unchanged and in place; it removes the entry k from the view's
\* in-memory poster cache and replaces the persisted poster cache by that
\* in-memory cache, so the other persisted entries are unchanged when the two
\* caches agreed before; a declined confirmation changes nothing.
C20_RemoveWritesViewCache ==
    [][\A k \in LocalIds :
          /\ HandleRemove(k, TRUE) =>
                /\ lsPapers'.has = lsPapers.has
                /\ lsPapers'.val = Others(lsPapers.val, k)
                /\ lib'.savedPapers = Others(lib.savedPapers, k)
                /\ DOMAIN lib'.savedPosters = DOMAIN lib.savedPosters \ {k}
                /\ \A x \in DOMAIN lib'.savedPosters :
                      lib'.savedPosters[x] = lib.savedPosters[x]
                /\ lsPosters'.has
                /\ lsPosters'.val = lib'.savedPosters
                /\ (lib.savedPosters = lsPosters.val =>
                       /\ DOMAIN lsPosters'.val = PosterKeys \ {k}
                       /\ \A x \in DOMAIN lsPosters'.val :
                             lsPosters'.val[x] = lsPosters.val[x])
                /\ UNCHANGED <<lsProfile, lsHistory>>
          /\ HandleRemove(k, FALSE) =>
                UNCHANGED <<lib, lsPapers, lsPosters, lsProfile, lsHistory>>]_vars
C20_Witness ==
    /\ route = "library"
    /\ \E k \in LocalIds :
          /\ k \in DOMAIN lib.savedPosters
          /\ k \in PosterKeys
          /\ k \in PaperKeys
          /\ ENABLED (/\ HandleRemove(k, TRUE)
                      /\ k \notin DOMAIN lsPosters'.val
                      /\ k \notin Keys(lsPapers'.val)
                      /\ k \notin Keys(lib'.savedPapers))

\* q is typed without the whitespace around it.
IsTrimOf(q, typed) ==
    \E i \in 0..Len(typed) :
        /\ i + Len(q) <= Len(typed)
        /\ \A j \in 1..Len(typed) :
              IF j <= i \/ j > i + Len(q) THEN typed[j] = " " ELSE typed[j] = q[j - i]
        /\ q # <<>> => (q[1] # " " /\ q[Len(q)] # " ")
\* The position of x in the sequence s that holds it once.
IndexOf(s, x) == CHOOSE i \in DOMAIN s : s[i] = x
\* C21: the persisted search history holds no query twice and at most ten
\* entries, and a form-submitted search of a non-blank query puts the trimmed
\* query at index 0 and keeps the other surviving queries in their previous
\* relative order.
C21_HistoryShape ==
    /\ [](/\ Len(lsHistory.val) <= 10
          /\ \A i, j \in DOMAIN lsHistory.val :
                lsHistory.val[i] = lsHistory.val[j] => i = j)
    /\ [][\A typed \in Inputs : \A q \in Queries :
             (HandleSearch(typed) /\ IsTrimOf(q, typed)) =>
                LET old == lsHistory.val
                    new == lsHistory'.val
                IN /\ new[1] = q
                   /\ \A i \in 2..Len(new) : \E j \in DOMAIN old : old[j] = new[i]
                   /\ \A i, j \in 2..Len(new) :
                         i < j => IndexOf(old, new[i]) < IndexOf(old, new[j])
                   /\ \A j \in DOMAIN old :
                         (old[j] # q /\ ~(j = 10 /\ q \notin Range(old))) =>
                             \E i \in 2..Len(new) : new[i] = old[j]]_vars
\* C21 witness: the last query of a full history has been submitted again;
\* it moved to the front, the others moved down by one, and the history is
\* still full.
C21_Witness ==
    /\ used.reqs = 1
    /\ Len(lsHistory.val) = 10
    /\ lsHistory.val[1] = Query(10)
    /\ \A i \in 2..10 : lsHistory.val[i] = Query(i - 1)

\* The steps that put the paper p, which the library did not hold, into the
\* library: an upload that succeeds (every upload is a new paper), the star
\* of an unsaved search result, or the first completed analysis of one.
NewlySaved(p) ==
    \/ /\ p.id = LocalId(now)
       /\ p.is_local
       /\ \E i \in DOMAIN reqs : UploadResponse(i, TRUE, p.title)
    \/ /\ p.id \notin PaperKeys
       /\ \/ ToggleSave(p)
          \/ \E c \in DOMAIN chans, ev \in CompleteEvents :
                chans[c].paper = p /\ HasResult(ev) /\ HomeOnMessage(c, ev)
\* C22 (as claimed): the library lists papers newest first.  The list is the
\* persisted map in reverse, so a paper newly saved or uploaded becomes the
\* last record of the persisted map, the records of the papers saved
\* earlier keep their order before it, and the mounted library view that
\* handled the upload shows it first.
C22_NewestFirst ==
    [][\A p \in AllPapers : NewlySaved(p) =>
          /\ lsPapers'.val # <<>>
          /\ lsPapers'.val[Len(lsPapers'.val)] = p
          /\ Others(lsPapers'.val, p.id) = Others(lsPapers.val, p.id)
          /\ (route = "library" /\ lib'.savedPapers # lib.savedPapers) =>
                lib'.savedPapers[1] = p]_vars

Views == {"home", "library"}
OpenFrom(v) == {c \in DOMAIN chans : chans[c].view = v /\ chans[c].open}
LiveFrom(v) == {c \in OpenFrom(v) : chans[c].live}
\* C23 as stated: at most one analysis channel started from a view is open at
\* any time, also after the user has left the view and returned to it.
C23_OneChannelPerView == \A v \in Views : Cardinality(OpenFrom(v)) <= 1
\* C23, amended: at most one channel opened by the mounted instance of a view
\* is open at any time; while it is open the view is mounted, its analyzingId
\* is the id of the channel's paper and so its analyze controls are disabled;
\* and a step opens a channel only when the mounted instance has none open.
\* Channels that earlier instances of the view opened may be open besides.
C23_OneChannelPerInstance ==
    /\ [](\A v \in Views :
             /\ Cardinality(LiveFrom(v)) <= 1
             /\ \A c \in LiveFrom(v) :
                   /\ route = v
                   /\ ViewOf(v).analyzingId = chans[c].paper.id
                   /\ ViewOf(v).analyzingId # NoId)
    /\ [][Len(chans') > Len(chans) =>
             /\ LiveFrom(route) = {}
             /\ ViewOf(route).analyzingId = NoId
             /\ chans'[Len(chans')].view = route
             /\ chans'[Len(chans')].live]_vars
\* C23 witness: the search view was left during an analysis and opened
\* again, and a second analysis was started there: two channels of the
\* search view are open, one of the earlier instance and one of the mounted.
C23_Witness ==
    /\ route = "home"
    /\ Len(chans) = 2
    /\ chans[1].view = "home" /\ ~chans[1].live /\ chans[1].open
    /\ chans[2].view = "home" /\ chans[2].live /\ chans[2].open
    /\ home.analyzingId = chans[2].paper.id

\* C24 (as claimed): the loading flag of the mounted search view is true at
\* every moment at which a search request it issued is still in flight.
C24_LoadingWhileInFlight ==
    (\E i \in DOMAIN reqs : reqs[i].kind = "search" /\ Live(reqs[i])) => home.loading

\* The view v shows no analysis in progress.
Idle(v) == ViewOf(v).analyzingId = NoId /\ ViewOf(v).analyzingStatus = ""
\* C25 (as claimed): once a channel of the mounted view has delivered a
\* complete event, an error event or a transport error, the view is
\* eventually idle: analyzingId null and analyzingStatus empty.  A channel
\* that is open after such an event shows it in its terminal flag; a channel
\* that the event closed has left the view idle in the same step.
C25_EventuallyIdle ==
    /\ [][\A c \in DOMAIN chans :
             (/\ Live(chans[c])
              /\ Len(chans') < Len(chans)
              /\ OnError(c) \/ \E ev \in Events : OnMessage(c, ev))
             => /\ ViewAfter(chans[c].view).analyzingId = NoId
                /\ ViewAfter(chans[c].view).analyzingStatus = ""]_vars
    /\ \A v \in Views :
          (\E c \in LiveFrom(v) : chans[c].terminal) ~> Idle(v)

Ignored == {ev \in Events : ev.type \in {"other", "unparseable"}}
\* C26: an analysis event whose payload is not JSON, or whose type is none of
\* progress, complete and error, changes neither analyzingId, analyzingStatus
\* and the displayed poster of either view nor the persisted store, and
\* leaves the channel open; a channel ready to deliver an event is ready to
\* deliver such an event.
C26_MalformedIgnored ==
    /\ [](\A c \in DOMAIN chans : \A ev \in Ignored :
             ENABLED (/\ OnMessage(c, ev)
                      /\ UNCHANGED <<home, lib, lsPapers, lsPosters, lsProfile, lsHistory>>
                      /\ Len(chans') = Len(chans)
                      /\ chans'[c].open
                      /\ chans'[c].terminal = chans[c].terminal))
    /\ [][\A c \in DOMAIN chans : \A ev \in Ignored :
             OnMessage(c, ev) =>
                /\ UNCHANGED <<home, lib, lsPapers, lsPosters, lsProfile, lsHistory, alerts>>
                /\ chans' = chans]_vars
\* C26 witness: during an analysis of the mounted search view, with a progress
\* message shown, the channel can deliver an unparseable event.
C26_Witness ==
    /\ route = "home"
    /\ home.analyzingStatus = "m1"
    /\ \E c \in DOMAIN chans :
          /\ Live(chans[c])
          /\ ENABLED (/\ HomeOnMessage(c, Event("unparseable", "", NoUrl))
                      /\ home'.analyzingStatus = "m1"
                      /\ home'.analyzingId = chans[c].paper.id
                      /\ chans'[c].open)

\* The query field holds nothing but whitespace.
Blank(typed) == \A i \in DOMAIN typed : typed[i] = " "
\* C27: a failed search leaves the displayed papers unchanged, ends with
\* loading false and changes nothing in the store; submitting a query that is
\* empty or only whitespace sends no request, adds nothing to the search
\* history and leaves papers and loading unchanged.
C27_FailedOrBlankSearch ==
    /\ [](route = "home" =>
             \A typed \in Inputs : Blank(typed) =>
                 ENABLED (HandleSearch(typed) /\ UNCHANGED vars))
    /\ [][/\ \A i \in DOMAIN reqs, data \in SearchResults :
               (SearchResponse(i, FALSE, data) /\ Live(reqs[i])) =>
                   /\ home'.papers = home.papers
                   /\ ~home'.loading
                   /\ UNCHANGED <<lsPapers, lsPosters, lsProfile, lsHistory, recent>>
          /\ \A typed \in Inputs :
               (HandleSearch(typed) /\ Blank(typed)) =>
                   UNCHANGED <<reqs, used, lsHistory, recent, home>>]_vars
\* C27 witness: a search that showed papers was followed by one that failed;
\* the papers are still shown and nothing is loading.
C27_Witness ==
    /\ route = "home"
    /\ used.reqs = 2
    /\ reqs = <<>>
    /\ alerts = 1
    /\ home.papers # <<>>
    /\ ~home.loading

\* C28 (as claimed): a successful upload adds exactly one record to the
\* persisted paper map, flagged is_local, under an id that no existing record
\* uses, and leaves the existing records unchanged; a failed upload leaves
\* the map unchanged; the mounted view's uploading flag is false afterwards.
C28_UploadAddsOne ==
    [][\A i \in DOMAIN reqs, f \in Titles :
          /\ UploadResponse(i, TRUE, f) =>
                /\ LocalId(now) \notin PaperKeys
                /\ Len(lsPapers'.val) = Len(lsPapers.val) + 1
                /\ lsPapers'.val[Len(lsPapers'.val)] = Paper(LocalId(now), f, TRUE)
                /\ \A j \in DOMAIN lsPapers.val : lsPapers'.val[j] = lsPapers.val[j]
                /\ Live(reqs[i]) => ~lib'.uploading
          /\ UploadResponse(i, FALSE, f) =>
                /\ lsPapers' = lsPapers
                /\ Live(reqs[i]) => ~lib'.uploading]_vars

\* toggleSave(p) applied twice to the mounted search view.
ToggledTwice(p) ==
    LET once == Toggled(home, lsPapers, p)
    IN Toggled(once.home, once.ls, p)
\* C29 (as claimed): for every paper the search view shows, toggleSave
\* applied twice restores the key set of the persisted paper map and the
\* savedIds set.
C29_ToggleInvolution ==
    (route = "home" /\ ~home.loading) =>
        \A i \in DOMAIN home.papers :
            /\ Keys(ToggledTwice(home.papers[i]).ls.val) = PaperKeys
            /\ ToggledTwice(home.papers[i]).home.savedIds = home.savedIds

====
